---- MODULE Spec2Model ----
(***************************************************************************)
(* Outbound long-message delivery of the WhatsApp/Gemini webhook bridge    *)
(* (src/server.js).  The file holds two generations of the server: the     *)
(* current one (lines 1-305) and an older one (lines 306-512).  Spec is    *)
(* the current sendSplitMessage / sendWhatsAppMessage; SpecOld is the      *)
(* older pair.  A string is the sequence of its UTF-16 code units.         *)
(***************************************************************************)
EXTENDS Integers, Sequences, FiniteSets, TLC

VARIABLES
    longText,   \* the text argument of the sendSplitMessage call
    pc,         \* where the async function is suspended
    chunks,     \* const chunks = []  (line 254)
    i,          \* the sending loop's index (line 262), 0-based
    sent,       \* the axios.post calls issued so far, in issue order
    result,     \* state of the promise sendSplitMessage returned
    events,     \* order of sends, settlements and pacing timers
    running,    \* the invocation whose code the event loop is running
    parked,     \* the suspended invocations' closures, by invocation
    hook        \* the webhook request being handled and its processing

\* one invocation of sendSplitMessage
call == <<longText, pc, chunks, i, sent, result, events>>

\* what lies around one invocation
around == <<running, parked, hook>>

vars == <<longText, pc, chunks, i, sent, result, events, running, parked, hook>>

\* a single invocation with nothing around it
Alone ==
    /\ running = 0
    /\ parked = << >>
    /\ hook = [phase |-> "none"]

-----------------------------------------------------------------------------
(* Bounds of the model *)

\* the longest texts tried have about MaxChunks chunks
MaxChunks == 10

-----------------------------------------------------------------------------
(* Constants of the program *)

MAX_LENGTH == 4096

PREFIX_RESERVATION == 20

CHUNK_SIZE_noReservation == MAX_LENGTH

CHUNK_SIZE_doubleReservation == MAX_LENGTH - 2 * PREFIX_RESERVATION

CHUNK_SIZE == MAX_LENGTH - PREFIX_RESERVATION

\* "Sorry, I encountered an issue while sending your multi-part message and
\* couldn't send all of it."
FAILURE_NOTICE ==
    << 83, 111, 114, 114, 121, 44, 32, 73, 32, 101, 110, 99, 111, 117, 110,
       116, 101, 114, 101, 100, 32, 97, 110, 32, 105, 115, 115, 117, 101, 32,
       119, 104, 105, 108, 101, 32, 115, 101, 110, 100, 105, 110, 103, 32,
       121, 111, 117, 114, 32, 109, 117, 108, 116, 105, 45, 112, 97, 114,
       116, 32, 109, 101, 115, 115, 97, 103, 101, 32, 97, 110, 100, 32, 99,
       111, 117, 108, 100, 110, 39, 116, 32, 115, 101, 110, 100, 32, 97,
       108, 108, 32, 111, 102, 32, 105, 116, 46 >>

-----------------------------------------------------------------------------
(* Strings *)

\* code units String.prototype.trim removes (WhiteSpace and LineTerminator)
WhiteSpace ==
    {9, 10, 11, 12, 13, 32, 160, 5760, 8232, 8233, 8239, 8287, 12288, 65279}
        \cup (8192..8202)

\* String.prototype.trim
Trim(s) ==
    LET n == Len(s)
    IN  IF \A k \in 1..n : s[k] \in WhiteSpace
        THEN << >>
        ELSE LET first == CHOOSE k \in 1..n :
                              /\ s[k] \notin WhiteSpace
                              /\ \A j \in 1..(k - 1) : s[j] \in WhiteSpace
                 last  == CHOOSE k \in 1..n :
                              /\ s[k] \notin WhiteSpace
                              /\ \A j \in (k + 1)..n : s[j] \in WhiteSpace
             IN  SubSeq(s, first, last)

\* String.prototype.substring(from, to), 0-based, end exclusive, clamped
Substring(s, from, to) ==
    LET hi == IF to > Len(s) THEN Len(s) ELSE to
    IN  SubSeq(s, from + 1, hi)

\* Number -> decimal string, as a template literal renders a non-negative integer
RECURSIVE ToDecimal(_)
ToDecimal(n) ==
    IF n < 10 THEN << 48 + n >>
              ELSE ToDecimal(n \div 10) \o << 48 + (n % 10) >>

-----------------------------------------------------------------------------
(* Inputs *)

\* a text of the given length repeating the given cycle of code units
MakeText(len, cycle) ==
    [k \in 1..len |-> cycle[((k - 1) % Len(cycle)) + 1]]

\* 'x' repeated; whitespace only; mixed text with leading whitespace and
\* the characters of a part prefix in its body
Cycles ==
    { << 120 >>,
      << 32, 10, 9 >>,
      << 32, 97, 40, 49, 47, 50, 41, 32, 98 >> }

Lengths ==
    {0, 1, 5, MAX_LENGTH - 1, MAX_LENGTH, MAX_LENGTH + 1, 9000}
        \cup { (MAX_LENGTH - PREFIX_RESERVATION) * k + d :
                   k \in {1, 2, MaxChunks - 1}, d \in {-1, 0, 1} }

Texts == { MakeText(len, cycle) : len \in Lengths, cycle \in Cycles }

-----------------------------------------------------------------------------
(* sendWhatsAppMessage, lines 198-222: TRUE when the returned promise       *)
(* fulfils, FALSE when it rejects, given whether axios.post succeeded       *)

sendWhatsAppMessage_swallow(postOk) == TRUE

sendWhatsAppMessage(postOk) == postOk

-----------------------------------------------------------------------------
(* sendSplitMessage, lines 237-298 *)

\* line 242: !longText || typeof longText !== 'string' || longText.trim() === ""
IsEmptyOrInvalid(text) == Len(text) = 0 \/ Trim(text) = << >>

FitsSingle_offByOne(text) == Len(text) <= MAX_LENGTH + 1

\* line 248
FitsSingle(text) == Len(text) <= MAX_LENGTH

SinglePayload_prefixed(text) == << 40, 49, 47, 49, 41, 32 >> \o text

\* line 249: the text itself is the payload
SinglePayload(text) == text

SliceEnd_short(from) == from + CHUNK_SIZE - 1

\* line 256: the end of the slice starting at from
SliceEnd(from) == from + CHUNK_SIZE

\* lines 254-257: the splitting loop, from offset from on
RECURSIVE SplitFrom(_, _)
SplitFrom(text, from) ==
    IF from < Len(text)
    THEN << Substring(text, from, SliceEnd(from)) >>
             \o SplitFrom(text, from + CHUNK_SIZE)
    ELSE << >>

PartNumber_zeroBased(idx) == idx

\* line 265: ${i + 1}
PartNumber(idx) == idx + 1

\* line 265: `(${i + 1}/${chunks.length}) ${chunk}`
MessagePart(idx, total, chunk) ==
    << 40 >> \o ToDecimal(PartNumber(idx)) \o << 47 >> \o ToDecimal(total)
        \o << 41, 32 >> \o chunk

\* line 275: messagePart.substring(0, MAX_LENGTH - 3) + "..."
Truncated_tooLong(part) == Substring(part, 0, MAX_LENGTH) \o << 46, 46, 46 >>

Truncated(part) == Substring(part, 0, MAX_LENGTH - 3) \o << 46, 46, 46 >>

PcAfterChunkSend_notAwaited == "delay"

\* line 280: the send is awaited before anything else happens
PcAfterChunkSend == "awaitChunk"

ShouldNotify_always(idx) == TRUE

\* line 289
ShouldNotify(idx) == idx = 0

\* line 294: return after a failed part
ResultAfterChunkFailure == "fulfilled"

ResultAfterNotice_propagated(fulfilled) ==
    IF fulfilled THEN "fulfilled" ELSE "rejected"

\* lines 290-294: the notice's failure is ignored, then return
ResultAfterNotice(fulfilled) == "fulfilled"

NextIndex_stuck(idx) == idx

\* line 262: i++
NextIndex(idx) == idx + 1

MorePartsFollow_never(idx, total) == FALSE

\* line 282: i < chunks.length - 1
MorePartsFollow(idx, total) == idx < total - 1

TimerCallsResolve_forgotten == FALSE

\* lines 225-227: the timer's callback is the promise's resolve
TimerCallsResolve == TRUE

\* one axios.post call as recorded in sent
Post(kind, part, payload) ==
    [kind |-> kind, part |-> part, payload |-> payload, outcome |-> "pending"]

\* the newest post settles
SettleLast(s, postOk) ==
    [s EXCEPT ![Len(s)].outcome = IF postOk THEN "ok" ELSE "failed"]

Finish(res, s, e) ==
    /\ pc' = "done"
    /\ result' = res
    /\ sent' = s
    /\ events' = e

\* lines 263-280: the post of part idx + 1 of total, truncated when the
\* rendered part is longer than MAX_LENGTH
PartPost(idx, total, chunk) ==
    LET messagePart == MessagePart(idx, total, chunk)
    IN  IF Len(messagePart) > MAX_LENGTH
        THEN Post("truncated", idx + 1, Truncated(messagePart))
        ELSE Post("chunk", idx + 1, messagePart)

\* lines 262-297: the loop from its test at index idx up to the next await
LoopFrom(idx, chs, s, e) ==
    /\ i' = idx
    /\ IF idx < Len(chs)
       THEN LET post == PartPost(idx, Len(chs), chs[idx + 1])
            IN  /\ result' = result
                /\ events' = Append(e, "send")
                /\ sent' = Append(s, post)
                /\ pc' = IF post.kind = "truncated" THEN "awaitTruncated"
                                                    ELSE PcAfterChunkSend
       ELSE Finish("fulfilled", s, e)

\* lines 237-259 and the first loop iteration: the call runs to its first await
Enter ==
    /\ UNCHANGED around
    /\ pc = "start"
    /\ UNCHANGED longText
    /\ IF IsEmptyOrInvalid(longText)
       THEN /\ Finish("fulfilled", sent, events)
            /\ UNCHANGED <<chunks, i>>
       ELSE IF FitsSingle(longText)
       THEN /\ pc' = "awaitSingle"
            /\ sent' = Append(sent, Post("single", 0, SinglePayload(longText)))
            /\ events' = Append(events, "send")
            /\ UNCHANGED <<chunks, i, result>>
       ELSE /\ chunks' = SplitFrom(longText, 0)
            /\ LoopFrom(0, chunks', sent, events)

\* line 249 resumes: the single send's outcome is the call's outcome
SingleSendSettles(postOk) ==
    /\ UNCHANGED around
    /\ pc = "awaitSingle"
    /\ Finish(IF sendWhatsAppMessage(postOk) THEN "fulfilled" ELSE "rejected",
              SettleLast(sent, postOk),
              Append(events, IF postOk THEN "ok" ELSE "failed"))
    /\ UNCHANGED <<longText, chunks, i>>

\* line 275 or line 280 resumes
ChunkSendSettles(postOk) ==
    /\ UNCHANGED around
    /\ pc \in {"awaitChunk", "awaitTruncated"}
    /\ UNCHANGED <<longText, chunks>>
    /\ LET s == SettleLast(sent, postOk)
           e == Append(events, IF postOk THEN "ok" ELSE "failed")
       IN  CASE pc = "awaitTruncated" /\ sendWhatsAppMessage(postOk) ->
                    \* line 276: continue
                    LoopFrom(NextIndex(i), chunks, s, e)
             [] pc = "awaitTruncated" /\ ~sendWhatsAppMessage(postOk) ->
                    \* line 275 is outside the try block
                    Finish("rejected", s, e) /\ UNCHANGED i
             [] pc = "awaitChunk" /\ sendWhatsAppMessage(postOk) ->
                    IF MorePartsFollow(i, Len(chunks))
                    THEN \* line 283
                         /\ pc' = "delay"
                         /\ sent' = s
                         /\ events' = Append(e, "timerSet")
                         /\ UNCHANGED <<i, result>>
                    ELSE LoopFrom(NextIndex(i), chunks, s, e)
             [] pc = "awaitChunk" /\ ~sendWhatsAppMessage(postOk) ->
                    \* lines 285-295
                    IF ShouldNotify(i)
                    THEN /\ pc' = "awaitNotice"
                         /\ sent' = Append(s, Post("notice", 0, FAILURE_NOTICE))
                         /\ events' = Append(e, "send")
                         /\ UNCHANGED <<i, result>>
                    ELSE Finish(ResultAfterChunkFailure, s, e) /\ UNCHANGED i

\* line 283 resumes: the timer of delay(delayBetweenMessages) fires
DelayElapses ==
    /\ UNCHANGED around
    /\ pc = "delay"
    /\ TimerCallsResolve
    /\ UNCHANGED <<longText, chunks>>
    /\ LoopFrom(NextIndex(i), chunks, sent, Append(events, "timerFired"))

\* line 291 resumes
NoticeSettles(postOk) ==
    /\ UNCHANGED around
    /\ pc = "awaitNotice"
    /\ Finish(ResultAfterNotice(sendWhatsAppMessage(postOk)),
              SettleLast(sent, postOk),
              Append(events, IF postOk THEN "ok" ELSE "failed"))
    /\ UNCHANGED <<longText, chunks, i>>

Init ==
    /\ Alone
    /\ longText \in Texts
    /\ pc = "start"
    /\ chunks = << >>
    /\ i = 0
    /\ sent = << >>
    /\ result = "pending"
    /\ events = << >>

Next ==
    \/ Enter
    \/ \E postOk \in BOOLEAN : SingleSendSettles(postOk)
    \/ \E postOk \in BOOLEAN : ChunkSendSettles(postOk)
    \/ DelayElapses
    \/ \E postOk \in BOOLEAN : NoticeSettles(postOk)

Spec == Init /\ [][Next]_vars

-----------------------------------------------------------------------------
(* The older server, lines 306-512 *)

\* sendWhatsAppMessage, lines 430-447: the catch block logs and does not
\* rethrow, so the returned promise fulfils whatever axios.post did
sendWhatsAppMessage_old(postOk) == TRUE

\* lines 485-505: the loop from its test at index idx up to the next await
OldLoopFrom(idx, chs, s, e) ==
    /\ i' = idx
    /\ IF idx < Len(chs)
       THEN /\ result' = result
            /\ events' = Append(e, "send")
            /\ pc' = "oldAwaitChunk"
            /\ sent' = Append(s, Post("chunk", idx + 1,
                                      MessagePart(idx, Len(chs), chs[idx + 1])))
       ELSE Finish("fulfilled", s, e)

\* lines 462-482 and the first loop iteration; there is no empty-text guard
OldEnter ==
    /\ UNCHANGED around
    /\ pc = "start"
    /\ UNCHANGED longText
    /\ IF Len(longText) <= MAX_LENGTH
       THEN /\ pc' = "oldAwaitSingle"
            /\ sent' = Append(sent, Post("single", 0, longText))
            /\ events' = Append(events, "send")
            /\ UNCHANGED <<chunks, i, result>>
       ELSE /\ chunks' = SplitFrom(longText, 0)
            /\ OldLoopFrom(0, chunks', sent, events)

\* line 471 resumes
OldSingleSendSettles(postOk) ==
    /\ UNCHANGED around
    /\ pc = "oldAwaitSingle"
    /\ Finish(IF sendWhatsAppMessage_old(postOk) THEN "fulfilled" ELSE "rejected",
              SettleLast(sent, postOk),
              Append(events, IF postOk THEN "ok" ELSE "failed"))
    /\ UNCHANGED <<longText, chunks, i>>

\* line 492 resumes
OldChunkSendSettles(postOk) ==
    /\ UNCHANGED around
    /\ pc = "oldAwaitChunk"
    /\ UNCHANGED <<longText, chunks>>
    /\ LET s == SettleLast(sent, postOk)
           e == Append(events, IF postOk THEN "ok" ELSE "failed")
       IN  IF sendWhatsAppMessage_old(postOk)
           THEN IF i < Len(chunks) - 1
                THEN \* line 496
                     /\ pc' = "oldDelay"
                     /\ sent' = s
                     /\ events' = Append(e, "timerSet")
                     /\ UNCHANGED <<i, result>>
                ELSE OldLoopFrom(i + 1, chunks, s, e)
           ELSE \* lines 498-502
                Finish("fulfilled", s, e) /\ UNCHANGED i

\* line 496 resumes
OldDelayElapses ==
    /\ UNCHANGED around
    /\ pc = "oldDelay"
    /\ UNCHANGED <<longText, chunks>>
    /\ OldLoopFrom(i + 1, chunks, sent, Append(events, "timerFired"))

OldNext ==
    \/ OldEnter
    \/ \E postOk \in BOOLEAN : OldSingleSendSettles(postOk)
    \/ \E postOk \in BOOLEAN : OldChunkSendSettles(postOk)
    \/ OldDelayElapses

SpecOld == Init /\ [][OldNext]_vars

-----------------------------------------------------------------------------
(* Vocabulary of the properties *)

\* every code unit of the text is white space (this includes the empty text)
Blank(text) == \A k \in 1..Len(text) : text[k] \in WhiteSpace

Ceil(a, b) == (a + b - 1) \div b

IsDigit(c) == c \in 48..57

\* the number a sequence of decimal digits denotes
RECURSIVE ParseDecimal(_)
ParseDecimal(d) ==
    IF Len(d) = 0 THEN 0
    ELSE 10 * ParseDecimal(SubSeq(d, 1, Len(d) - 1)) + (d[Len(d)] - 48)

\* positions of the first "/" and the first ")" of a payload, 0 when absent
FirstOf(c, p) ==
    IF \E k \in 1..Len(p) : p[k] = c
    THEN CHOOSE k \in 1..Len(p) : p[k] = c /\ \A j \in 1..(k - 1) : p[j] # c
    ELSE 0

\* the payload reads "(" digits "/" digits ") " body
HasPrefix(p) ==
    LET slash == FirstOf(47, p)
        close == FirstOf(41, p)
    IN  /\ Len(p) >= 6
        /\ p[1] = 40
        /\ 2 < slash /\ slash + 1 < close /\ close < Len(p)
        /\ \A k \in 2..(slash - 1) : IsDigit(p[k])
        /\ \A k \in (slash + 1)..(close - 1) : IsDigit(p[k])
        /\ p[close + 1] = 32

PrefixIndex(p) == ParseDecimal(SubSeq(p, 2, FirstOf(47, p) - 1))

PrefixTotal(p) == ParseDecimal(SubSeq(p, FirstOf(47, p) + 1, FirstOf(41, p) - 1))

\* the payload without its "(i/n) " prefix; a payload without one is its own body
Unprefixed(p) ==
    IF HasPrefix(p) THEN SubSeq(p, FirstOf(41, p) + 2, Len(p)) ELSE p

RECURSIVE ConcatBodies(_)
ConcatBodies(s) ==
    IF Len(s) = 0 THEN << >>
    ELSE ConcatBodies(SubSeq(s, 1, Len(s) - 1)) \o Unprefixed(s[Len(s)].payload)

AllSucceeded == \A k \in 1..Len(sent) : sent[k].outcome = "ok"

IsPart(k) == sent[k].kind \in {"chunk", "truncated"}

-----------------------------------------------------------------------------
(* C1 *)

\* C1 as stated: for every text longer than MAX_LENGTH, once the call has
\* completed with every send succeeding, the unprefixed bodies of the sends,
\* concatenated in send order, are the text.
C1_RoundTripEveryText ==
    (pc = "done" /\ Len(longText) > MAX_LENGTH /\ AllSucceeded)
        => ConcatBodies(sent) = longText

\* C1 amended: the same for every text longer than MAX_LENGTH that is not
\* made of white space only (a white-space-only text is not sent at all).
C1_RoundTrip ==
    (pc = "done" /\ Len(longText) > MAX_LENGTH /\ ~Blank(longText) /\ AllSucceeded)
        => ConcatBodies(sent) = longText

C1_Witness ==
    /\ pc = "done" /\ AllSucceeded /\ ~Blank(longText)
    /\ Len(sent) >= 3
    /\ Len(sent[Len(sent)].payload) < CHUNK_SIZE

-----------------------------------------------------------------------------
(* C2 *)

\* C2: every payload handed to the single-send primitive (a short text, a
\* prefixed part, a truncated part, the failure notice) is at most MAX_LENGTH
\* code units long.
C2_SizeCompliance ==
    \A k \in 1..Len(sent) : Len(sent[k].payload) <= MAX_LENGTH

C2_Witness ==
    /\ \E k \in 1..Len(sent) :
           sent[k].kind = "chunk" /\ Len(sent[k].payload) > CHUNK_SIZE + 6

-----------------------------------------------------------------------------
(* C3 *)

\* C3: the parts are sent in ascending index order, one at a time: only the
\* newest send can be unresolved, so part k+1 is never issued while part k is
\* in flight, and the k-th send of a multi-part call is part k.
C3_Ordering ==
    /\ \A k \in 1..Len(sent) : sent[k].outcome = "pending" => k = Len(sent)
    /\ \A k \in 1..Len(sent) :
           IsPart(k) => /\ sent[k].part = k
                        /\ PrefixIndex(sent[k].payload) = k

C3_Witness ==
    /\ Len(sent) >= 3
    /\ IsPart(Len(sent))
    /\ sent[Len(sent)].outcome = "pending"

-----------------------------------------------------------------------------
(* C4 *)

\* C4: once the send of part k has failed, no later part is ever sent (the
\* only send that can follow a failed part is the failure notice).
C4_AbortOnFailure ==
    \A k \in 1..Len(sent) : \A j \in (k + 1)..Len(sent) :
        (IsPart(k) /\ sent[k].outcome = "failed") => sent[j].kind = "notice"

C4_Witness ==
    /\ pc = "done"
    /\ \E k \in 2..Len(sent) :
           /\ IsPart(k) /\ sent[k].outcome = "failed"
           /\ k < Len(chunks)
           /\ Len(sent) = k

-----------------------------------------------------------------------------
(* C5 *)

\* C5: the call reports success to its caller exactly when every text or part
\* send it issued succeeded; a failed send makes the call as a whole report
\* failure, on the single-send path and on the multi-part path alike.
C5_OutcomeReporting ==
    pc = "done" =>
        (result = "fulfilled"
            <=> \A k \in 1..Len(sent) :
                    sent[k].kind # "notice" => sent[k].outcome = "ok")

-----------------------------------------------------------------------------
(* C6 *)

\* C6: in a multi-part call the failure notice is sent if and only if the
\* failed send is that of part 1: it is then the very next send, issued once,
\* after part 1 has failed; a failure of a later part is followed by no send.
C6_FailureNotice ==
    /\ \A k \in 1..Len(sent) :
           sent[k].kind = "notice"
               => /\ k = 2
                  /\ IsPart(1) /\ sent[1].part = 1 /\ sent[1].outcome = "failed"
                  /\ sent[k].payload = FAILURE_NOTICE
    /\ (Len(sent) >= 1 /\ IsPart(1) /\ sent[1].outcome = "failed")
           => (Len(sent) = 2 /\ sent[2].kind = "notice")
    /\ \A k \in 2..Len(sent) :
           (IsPart(k) /\ sent[k].outcome = "failed") => Len(sent) = k

C6_Witness ==
    /\ pc = "done"
    /\ Len(sent) = 2
    /\ sent[1].outcome = "failed"
    /\ sent[2].kind = "notice"

-----------------------------------------------------------------------------
(* C7 *)

\* C7: once the failure notice has settled, succeeded or failed, the call has
\* completed in the same way (its promise fulfilled, never rejected) and the
\* notice is the last send.
C7_NoticeFailureSwallowed ==
    \A k \in 1..Len(sent) :
        (sent[k].kind = "notice" /\ sent[k].outcome # "pending")
            => (pc = "done" /\ result = "fulfilled" /\ k = Len(sent))

C7_Witness ==
    /\ pc = "done"
    /\ Len(sent) = 2
    /\ sent[2].kind = "notice"
    /\ sent[2].outcome = "failed"

-----------------------------------------------------------------------------
(* C8 *)

\* C8 as stated: for every text of at most MAX_LENGTH code units the call
\* issues exactly one send, whose payload is the text verbatim.
C8_ShortEveryText ==
    (pc # "start" /\ Len(longText) <= MAX_LENGTH)
        => (Len(sent) = 1 /\ sent[1].payload = longText)

\* C8 amended: the same for every text of at most MAX_LENGTH code units that
\* is neither empty nor made of white space only.
C8_ShortMessage ==
    (pc # "start" /\ Len(longText) <= MAX_LENGTH /\ ~Blank(longText))
        => (Len(sent) = 1 /\ sent[1].payload = longText)

C8_Witness ==
    /\ pc = "done"
    /\ Len(longText) = MAX_LENGTH
    /\ ~Blank(longText)
    /\ Len(sent) = 1
    /\ sent[1].outcome = "ok"

-----------------------------------------------------------------------------
(* C9 *)

\* C9: for every empty or white-space-only text, of any length, the call
\* issues no send and completes successfully.
C9_EmptyInput ==
    (pc # "start" /\ Blank(longText))
        => (Len(sent) = 0 /\ pc = "done" /\ result = "fulfilled")

-----------------------------------------------------------------------------
(* C10 *)

\* the plan of a text longer than MAX_LENGTH: ceil(len / (4096 - 20)) parts,
\* none empty, all but the last of 4076 code units, and every part payload
\* sent is "(i/n) " followed by the i-th part, i counting from 1
PlanAsClaimed ==
    LET n == Ceil(Len(longText), MAX_LENGTH - PREFIX_RESERVATION)
    IN  /\ Len(chunks) = n
        /\ \A k \in 1..Len(chunks) : Len(chunks[k]) > 0
        /\ \A k \in 1..(Len(chunks) - 1) :
               Len(chunks[k]) = MAX_LENGTH - PREFIX_RESERVATION
        /\ \A k \in 1..Len(sent) :
               IsPart(k) =>
                   LET p == sent[k].payload
                   IN  /\ HasPrefix(p)
                       /\ p[2] # 48 /\ p[FirstOf(47, p) + 1] # 48
                       /\ PrefixIndex(p) = k
                       /\ PrefixTotal(p) = n
                       /\ Unprefixed(p) = chunks[k]

\* C10 as stated: every text longer than MAX_LENGTH gets that plan.
C10_PlanEveryText ==
    (pc # "start" /\ Len(longText) > MAX_LENGTH) => PlanAsClaimed

\* C10 amended: every text longer than MAX_LENGTH that is not made of white
\* space only gets that plan (for a white-space-only text no plan is made).
C10_ChunkCount ==
    (pc # "start" /\ Len(longText) > MAX_LENGTH /\ ~Blank(longText))
        => PlanAsClaimed

C10_Witness ==
    /\ pc = "done"
    /\ AllSucceeded
    /\ Len(sent) >= 10
    /\ Len(longText) % CHUNK_SIZE # 0

-----------------------------------------------------------------------------
(* C11 *)

\* the position in events of the k-th send
NthSend(k) ==
    CHOOSE e \in 1..Len(events) :
        /\ events[e] = "send"
        /\ Cardinality({f \in 1..e : events[f] = "send"}) = k

\* C11: between two consecutive part sends of one call a full pacing delay
\* is waited out: every part after the first is issued right after a timer
\* that was set when its predecessor's send had succeeded has fired.
C11_Pacing ==
    \A k \in 2..Len(sent) :
        IsPart(k) =>
            LET e == NthSend(k)
            IN  /\ e > 4
                /\ events[e - 1] = "timerFired"
                /\ events[e - 2] = "timerSet"
                /\ events[e - 3] = "ok"
                /\ events[e - 4] = "send"
                /\ sent[k - 1].outcome = "ok"

C11_Witness ==
    /\ Len(sent) >= 3
    /\ IsPart(3)
    /\ sent[3].outcome = "pending"

-----------------------------------------------------------------------------
(* C12 *)

\* C12: no retries: within one call every part index is sent at most once, a
\* payload whose send failed is never sent again, and a plan of n parts causes
\* at most n part sends and at most one notice (a single text at most one send).
C12_NoRetries ==
    /\ \A j \in 1..Len(sent) : \A k \in (j + 1)..Len(sent) :
           /\ (IsPart(j) /\ IsPart(k)) => sent[j].part # sent[k].part
           /\ sent[j].outcome = "failed" => sent[k].payload # sent[j].payload
    /\ Cardinality({k \in 1..Len(sent) : IsPart(k)}) <= Len(chunks)
    /\ Cardinality({k \in 1..Len(sent) : sent[k].kind = "notice"}) <= 1
    /\ Cardinality({k \in 1..Len(sent) : sent[k].kind = "single"}) <= 1
    /\ Len(sent) <= (IF Len(chunks) = 0 THEN 1 ELSE Len(chunks) + 1)

C12_Witness ==
    /\ pc = "done"
    /\ Len(chunks) >= 3
    /\ \/ Len(sent) = Len(chunks) /\ sent[Len(sent)].outcome = "failed"
       \/ Len(sent) = 2 /\ sent[2].kind = "notice" /\ sent[2].outcome = "failed"

-----------------------------------------------------------------------------
(* C13 *)

Digits(n) == Len(ToDecimal(n))

\* the rendered length of "(i/n) "
PrefixLength(idx, total) == 4 + Digits(idx) + Digits(total)

\* the characters m parts can carry when part k may hold
\* MAX_LENGTH - PrefixLength(k, m) of them
RECURSIVE CapacityUpTo(_, _)
CapacityUpTo(k, m) ==
    IF k = 0 THEN 0
    ELSE CapacityUpTo(k - 1, m) + (MAX_LENGTH - PrefixLength(k, m))

\* the fewest parts whose bodies, each within its real budget, hold len
\* characters (the program's own plan is one such, so the search stops there)
FewestFitting(len) ==
    CHOOSE m \in 1..Len(chunks) :
        /\ CapacityUpTo(m, m) >= len
        /\ \A f \in 1..(m - 1) : CapacityUpTo(f, f) < len

\* C13 as stated (for the texts that get a plan at all): the number of parts
\* is the minimum for which every part satisfies
\* body length + PrefixLength(index, total) <= MAX_LENGTH.
C13_MinimalForRealPrefix ==
    (pc # "start" /\ Len(longText) > MAX_LENGTH /\ ~Blank(longText))
        => Len(chunks) = FewestFitting(Len(longText))

\* C13 amended: for every text longer than MAX_LENGTH that is not made of
\* white space only, the number of parts is the minimum for which every part
\* body is at most MAX_LENGTH - PREFIX_RESERVATION long, and with it every
\* part satisfies body length + PrefixLength(index, total) <= MAX_LENGTH.
C13_MinimalForReservation ==
    (pc # "start" /\ Len(longText) > MAX_LENGTH /\ ~Blank(longText))
        => /\ Len(chunks) * (MAX_LENGTH - PREFIX_RESERVATION) >= Len(longText)
           /\ (Len(chunks) - 1) * (MAX_LENGTH - PREFIX_RESERVATION) < Len(longText)
           /\ \A k \in 1..Len(chunks) :
                  /\ Len(chunks[k]) <= MAX_LENGTH - PREFIX_RESERVATION
                  /\ Len(chunks[k]) + PrefixLength(k, Len(chunks)) <= MAX_LENGTH

C13_Witness ==
    /\ pc # "start"
    /\ Len(longText) = 2 * (MAX_LENGTH - PREFIX_RESERVATION) + 1
    /\ Len(chunks) = 3
    /\ CapacityUpTo(2, 2) >= Len(longText)

-----------------------------------------------------------------------------
(* C17 *)

\* the event loop runs the call, every axios.post settles (one way or the
\* other) and every timer fires
Fairness ==
    /\ WF_vars(Enter)
    /\ WF_vars(\E postOk \in BOOLEAN : SingleSendSettles(postOk))
    /\ WF_vars(\E postOk \in BOOLEAN : ChunkSendSettles(postOk))
    /\ WF_vars(DelayElapses)
    /\ WF_vars(\E postOk \in BOOLEAN : NoticeSettles(postOk))

SpecLive == Init /\ [][Next]_vars /\ Fairness

\* C17: when every send eventually settles and every pacing delay eventually
\* elapses, the call eventually completes, whatever the text and whatever the
\* outcomes of its sends.
C17_Termination == <>(pc = "done")

C17_Witness ==
    /\ pc = "done"
    /\ Len(sent) >= 3
    /\ "timerFired" \in {events[e] : e \in 1..Len(events)}

-----------------------------------------------------------------------------
(* sendWhatsAppMessage on its own: longText is its text argument, sent the   *)
(* axios.post it makes, result the promise it returns                       *)

InitSend ==
    /\ Alone
    /\ longText \in Texts
    /\ pc = "sendStart"
    /\ chunks = << >>
    /\ i = 0
    /\ sent = << >>
    /\ result = "pending"
    /\ events = << >>

\* lines 199-215 (lines 431-442 in the older server): log, then axios.post
SendStart ==
    /\ UNCHANGED around
    /\ pc = "sendStart"
    /\ pc' = "posting"
    /\ sent' = Append(sent, Post("single", 0, longText))
    /\ events' = Append(events, "send")
    /\ UNCHANGED <<longText, chunks, i, result>>

\* lines 216-221: log success, or log the error and rethrow it
SendPostSettles(postOk) ==
    /\ UNCHANGED around
    /\ pc = "posting"
    /\ pc' = "sendDone"
    /\ sent' = SettleLast(sent, postOk)
    /\ events' = Append(events, IF postOk THEN "ok" ELSE "failed")
    /\ result' = IF sendWhatsAppMessage(postOk) THEN "fulfilled" ELSE "rejected"
    /\ UNCHANGED <<longText, chunks, i>>

\* lines 443-446: log success, or log the error and fall off the catch block
OldSendPostSettles(postOk) ==
    /\ UNCHANGED around
    /\ pc = "posting"
    /\ pc' = "sendDone"
    /\ sent' = SettleLast(sent, postOk)
    /\ events' = Append(events, IF postOk THEN "ok" ELSE "failed")
    /\ result' = IF sendWhatsAppMessage_old(postOk) THEN "fulfilled" ELSE "rejected"
    /\ UNCHANGED <<longText, chunks, i>>

NextSend ==
    \/ SendStart
    \/ \E postOk \in BOOLEAN : SendPostSettles(postOk)

OldNextSend ==
    \/ SendStart
    \/ \E postOk \in BOOLEAN : OldSendPostSettles(postOk)

SpecSend == InitSend /\ [][NextSend]_vars

SpecSendOld == InitSend /\ [][OldNextSend]_vars

-----------------------------------------------------------------------------
(* C18 *)

\* C18: whenever the axios.post of sendWhatsAppMessage fails, the promise
\* sendWhatsAppMessage returned is rejected, never fulfilled, so that a caller
\* awaiting it sees the failure.
C18_SendReportsFailure ==
    \A k \in 1..Len(sent) :
        sent[k].outcome = "failed" => (pc = "sendDone" /\ result = "rejected")

-----------------------------------------------------------------------------
(* One iteration of the sending loop, lines 262-296, for part idx + 1 of a   *)
(* plan of any size.  The array chunks is held as its length and its        *)
(* element at i; the text and the earlier sends are not held.               *)

RECURSIVE Pow10(_)
Pow10(k) == IF k = 0 THEN 1 ELSE 10 * Pow10(k - 1)

\* plan sizes around every change of the number of digits
Totals == {2, 3} \cup { Pow10(k) + d : k \in 1..9, d \in {-1, 0} }

\* loop indices around every change of the number of digits, and the last two
IndicesOf(total) ==
    { idx \in {0, 1, total - 2, total - 1}
                \cup { Pow10(k) + d : k \in 1..9, d \in {-2, -1} } :
          0 <= idx /\ idx < total }

\* chunks[idx] of a plan of total parts: CHUNK_SIZE code units, fewer in the
\* last part (lines 255-256)
BodiesOf(idx, total) ==
    IF idx < total - 1
    THEN { MakeText(CHUNK_SIZE, << 120 >>) }
    ELSE { MakeText(CHUNK_SIZE, << 120 >>), MakeText(1, << 120 >>) }

InitPart ==
    /\ Alone
    /\ longText = << >>
    /\ pc = "loopTest"
    /\ \E total \in Totals : \E idx \in IndicesOf(total) :
           /\ i = idx
           /\ \E body \in BodiesOf(idx, total) :
                  chunks = [length |-> total, at |-> body]
    /\ sent = << >>
    /\ result = "pending"
    /\ events = << >>

\* lines 262-280: the test holds, the part is rendered and posted
PartStart ==
    /\ UNCHANGED around
    /\ pc = "loopTest"
    /\ i < chunks.length
    /\ LET post == PartPost(i, chunks.length, chunks.at)
       IN  /\ sent' = Append(sent, post)
           /\ pc' = IF post.kind = "truncated" THEN "awaitTruncated"
                                               ELSE PcAfterChunkSend
    /\ events' = Append(events, "send")
    /\ UNCHANGED <<longText, chunks, i, result>>

\* the loop comes back to its test with index idx (the next part is not
\* followed further), or ends after the last part (line 297)
PartLoopFrom(idx, s, e) ==
    /\ i' = idx
    /\ IF idx < chunks.length
       THEN /\ pc' = "nextIteration"
            /\ sent' = s
            /\ events' = e
            /\ result' = result
       ELSE Finish("fulfilled", s, e)

\* line 275 or line 280 resumes
PartSendSettles(postOk) ==
    /\ UNCHANGED around
    /\ pc \in {"awaitChunk", "awaitTruncated"}
    /\ UNCHANGED <<longText, chunks>>
    /\ LET s == SettleLast(sent, postOk)
           e == Append(events, IF postOk THEN "ok" ELSE "failed")
       IN  CASE pc = "awaitTruncated" /\ sendWhatsAppMessage(postOk) ->
                    PartLoopFrom(NextIndex(i), s, e)
             [] pc = "awaitTruncated" /\ ~sendWhatsAppMessage(postOk) ->
                    Finish("rejected", s, e) /\ UNCHANGED i
             [] pc = "awaitChunk" /\ sendWhatsAppMessage(postOk) ->
                    IF MorePartsFollow(i, chunks.length)
                    THEN /\ pc' = "delay"
                         /\ sent' = s
                         /\ events' = Append(e, "timerSet")
                         /\ UNCHANGED <<i, result>>
                    ELSE PartLoopFrom(NextIndex(i), s, e)
             [] pc = "awaitChunk" /\ ~sendWhatsAppMessage(postOk) ->
                    IF ShouldNotify(i)
                    THEN /\ pc' = "awaitNotice"
                         /\ sent' = Append(s, Post("notice", 0, FAILURE_NOTICE))
                         /\ events' = Append(e, "send")
                         /\ UNCHANGED <<i, result>>
                    ELSE Finish(ResultAfterChunkFailure, s, e) /\ UNCHANGED i

\* line 283 resumes
PartDelayElapses ==
    /\ UNCHANGED around
    /\ pc = "delay"
    /\ TimerCallsResolve
    /\ UNCHANGED <<longText, chunks>>
    /\ PartLoopFrom(NextIndex(i), sent, Append(events, "timerFired"))

NextPart ==
    \/ PartStart
    \/ \E postOk \in BOOLEAN : PartSendSettles(postOk)
    \/ PartDelayElapses
    \/ \E postOk \in BOOLEAN : NoticeSettles(postOk)

SpecPart == InitPart /\ [][NextPart]_vars

-----------------------------------------------------------------------------
(* C14 *)

-----------------------------------------------------------------------------
(* C19 *)

RECURSIVE DigitCount(_)
DigitCount(n) == IF n < 10 THEN 1 ELSE 1 + DigitCount(n \div 10)

\* C19: in a plan of fewer than 10^8 parts the prefix of part i of n is
\* 4 + digits(i) + digits(n) <= PREFIX_RESERVATION code units long, so body
\* and prefix together are at most MAX_LENGTH long and no part is truncated.
C19_ReservationBound ==
    chunks.length < Pow10(8) =>
        \A k \in 1..Len(sent) :
            IsPart(k) =>
                LET p == sent[k].payload
                    prefixLen == FirstOf(41, p) + 1
                IN  /\ sent[k].kind = "chunk"
                    /\ HasPrefix(p)
                    /\ prefixLen = 4 + DigitCount(sent[k].part)
                                     + DigitCount(chunks.length)
                    /\ prefixLen <= PREFIX_RESERVATION
                    /\ Len(p) = prefixLen + Len(chunks.at)
                    /\ Len(p) <= MAX_LENGTH

C19_Witness ==
    /\ chunks.length = Pow10(8) - 1
    /\ Len(sent) = 1
    /\ sent[1].part = chunks.length
    /\ sent[1].kind = "chunk"
    /\ Len(sent[1].payload) = MAX_LENGTH

-----------------------------------------------------------------------------
(* Several invocations in flight.  POST /webhook starts the processing of
   each inbound message without awaiting it (server.js:182), so the
   sendSplitMessage invocations of different messages overlap.  Node runs one
   callback at a time: the invocation on the event loop owns the variables of
   `call`, the suspended ones are parked with their closures, and a callback
   of a parked invocation runs after the event loop has dispatched to it.    *)

\* how many invocations overlap
NumCalls == 2

Calls == 1..NumCalls

\* the texts of overlapping invocations: blank, single message, two parts
ConcTexts ==
    { MakeText(1, <<32>>),
      MakeText(5, <<104, 105>>),
      MakeText(MAX_LENGTH + 1, <<32, 97, 40, 49, 47, 50, 41, 32, 98>>) }

\* an invocation that has not started to run
Fresh(text) ==
    [longText |-> text, pc |-> "start", chunks |-> << >>, i |-> 0,
     sent |-> << >>, result |-> "pending", events |-> << >>]

\* the closure of the invocation on the event loop
Closure ==
    [longText |-> longText, pc |-> pc, chunks |-> chunks, i |-> i,
     sent |-> sent, result |-> result, events |-> events]

\* the slot of the invocation that is on the event loop
OnLoop == [pc |-> "onLoop"]

\* `let i` (line 262) gives every invocation its own loop index; a loop
\* written `for (i = 0; ...)` would share one index between all of them
LoopIndexIsLocal_shared == FALSE

LoopIndexIsLocal == TRUE

\* `await` hands the event loop back while a send or a delay is pending; a
\* synchronous request would keep it until the request has resolved
AwaitYields_blocking == FALSE

AwaitYields == TRUE

Suspended == pc \in {"awaitSingle", "awaitChunk", "awaitTruncated",
                     "awaitNotice", "delay"}

\* the state of invocation c
CallState(c) == IF c = running THEN Closure ELSE parked[c]

InitConc ==
    /\ hook = [phase |-> "none"]
    /\ running = 1
    /\ \E texts \in [Calls -> ConcTexts] :
          /\ parked = [c \in Calls |->
                          IF c = 1 THEN OnLoop ELSE Fresh(texts[c])]
          /\ longText = texts[1]
    /\ pc = "start"
    /\ chunks = << >>
    /\ i = 0
    /\ sent = << >>
    /\ result = "pending"
    /\ events = << >>

\* the event loop turns to a callback of invocation c, once the invocation it
\* was running has returned or is suspended at an await
Dispatch(c) ==
    /\ c # running
    /\ parked[c].pc # "done"
    /\ pc = "done" \/ (Suspended /\ AwaitYields)
    /\ running' = c
    /\ parked' = [parked EXCEPT ![running] = Closure, ![c] = OnLoop]
    /\ longText' = parked[c].longText
    /\ pc' = parked[c].pc
    /\ chunks' = parked[c].chunks
    /\ i' = IF LoopIndexIsLocal THEN parked[c].i ELSE i
    /\ sent' = parked[c].sent
    /\ result' = parked[c].result
    /\ events' = parked[c].events
    /\ UNCHANGED hook

NextConc ==
    \/ \E c \in Calls : Dispatch(c)
    \/ Enter
    \/ \E postOk \in BOOLEAN : SingleSendSettles(postOk)
    \/ \E postOk \in BOOLEAN : ChunkSendSettles(postOk)
    \/ DelayElapses
    \/ \E postOk \in BOOLEAN : NoticeSettles(postOk)

SpecConc == InitConc /\ [][NextConc]_vars

(* C15 *)

\* the payloads of the sends a closure has issued, in issue order
Payloads(st) == [k \in 1..Len(st.sent) |-> st.sent[k].payload]

\* the outcomes of the sends of a closure that have settled, in issue order
Outcomes(st) ==
    LET settled == IF Len(st.sent) > 0 /\ st.sent[Len(st.sent)].outcome = "pending"
                   THEN Len(st.sent) - 1
                   ELSE Len(st.sent)
    IN  [k \in 1..settled |-> st.sent[k].outcome]

\* how many of the first outcomes are successes
RECURSIVE LeadingOk(_)
LeadingOk(outs) ==
    IF outs = << >> \/ Head(outs) # "ok" THEN 0 ELSE 1 + LeadingOk(Tail(outs))

\* what an invocation running alone has issued once the sends with outcomes
\* `outs` have settled and it waits for the next settlement or has returned
AloneSends(text, outs) ==
    IF Blank(text) THEN << >>
    ELSE IF Len(text) <= MAX_LENGTH THEN <<text>>
    ELSE LET chs == SplitFrom(text, 0)
             n == Len(chs)
             issued == IF LeadingOk(outs) < n THEN LeadingOk(outs) + 1 ELSE n
             parts == [k \in 1..issued |-> MessagePart(k - 1, n, chs[k])]
         IN  IF Len(outs) > 0 /\ outs[1] = "failed"
             THEN Append(parts, FAILURE_NOTICE)
             ELSE parts

IsPrefixOf(s, t) ==
    /\ Len(s) <= Len(t)
    /\ \A k \in 1..Len(s) : s[k] = t[k]

\* the sends of a closure are those of the same text sent alone with the
\* same outcomes: all of them, or all but the part a pending delay precedes
SendsAsAlone(st) ==
    LET alone == AloneSends(st.longText, Outcomes(st))
    IN  IF st.pc \in {"start", "delay"}
        THEN IsPrefixOf(Payloads(st), alone)
        ELSE Payloads(st) = alone

\* C15: of two invocations in flight at the same time, each issues exactly
\* the payloads, in the same order, that it would issue running alone with the
\* same outcomes of its sends, whatever the interleaving with the other.
C15_Independence == \A c \in Calls : SendsAsAlone(CallState(c))

\* the same for the single invocation of Spec, which is the one running alone
AloneSendsAsAlone == SendsAsAlone(Closure)

\* both invocations are in flight at once, each waiting for the send of the
\* second part of its text after a successful first part
C15_Witness ==
    \A c \in Calls :
        /\ CallState(c).pc = "awaitChunk"
        /\ Len(CallState(c).sent) = 2
        /\ CallState(c).sent[1].outcome = "ok"
        /\ CallState(c).sent[2].part = 2

-----------------------------------------------------------------------------
(* One invocation of which a send may never resolve, among others whose
   sends all do.                                                            *)

\* the invocation of which a send may never resolve
Stalled == 1

\* the invocation of which a send may never resolve has a send to issue
InitStall ==
    /\ InitConc
    /\ ~IsEmptyOrInvalid(longText)

\* the request of the send in flight has not resolved
InFlight == Len(sent) > 0 /\ sent[Len(sent)].outcome = "pending"

\* the send in flight of the stalled invocation is one that never resolves
Stalls ==
    /\ running = Stalled
    /\ pc \in {"awaitSingle", "awaitChunk", "awaitNotice"}
    /\ InFlight
    /\ sent' = [sent EXCEPT ![Len(sent)].outcome = "never"]
    /\ UNCHANGED <<longText, pc, chunks, i, result, events>>
    /\ UNCHANGED around

\* the send in flight resolves
Resolves(postOk) ==
    /\ InFlight
    /\ \/ SingleSendSettles(postOk)
       \/ ChunkSendSettles(postOk)
       \/ NoticeSettles(postOk)

NextStall ==
    \/ \E c \in Calls : Dispatch(c)
    \/ Enter
    \/ Stalls
    \/ \E postOk \in BOOLEAN : Resolves(postOk)
    \/ DelayElapses

\* a callback of the invocation on the event loop runs
Runs ==
    \/ Enter
    \/ \E postOk \in BOOLEAN : Resolves(postOk)
    \/ DelayElapses

\* the event loop runs every callback that is ready: it turns to every
\* invocation that has one, and runs it; every send but the one that never
\* resolves does resolve
FairnessStall ==
    \A c \in Calls :
        /\ WF_vars(Dispatch(c))
        /\ SF_vars(running = c /\ Runs)

SpecStall == InitStall /\ [][NextStall]_vars /\ FairnessStall

(* C16 *)

\* a send of the closure never resolves
HasStalledSend(st) == \E k \in 1..Len(st.sent) : st.sent[k].outcome = "never"

\* C16: once a physical send of one invocation never resolves, that send
\* stays its last one and the invocation never returns, and every other
\* invocation in flight still runs to its end.
C16_StallIsolation ==
    /\ [](HasStalledSend(CallState(Stalled)) =>
             LET st == CallState(Stalled)
             IN  /\ st.sent[Len(st.sent)].outcome = "never"
                 /\ st.pc # "done"
                 /\ st.result = "pending")
    /\ <>(\A c \in Calls \ {Stalled} : CallState(c).pc = "done")

\* the send of the second part of the stalled invocation never resolves, and
\* another invocation, started later, has returned after both of its parts
C16_Witness ==
    /\ CallState(Stalled).pc = "awaitChunk"
    /\ Len(CallState(Stalled).sent) = 2
    /\ CallState(Stalled).sent[2].outcome = "never"
    /\ \E c \in Calls \ {Stalled} :
          /\ CallState(c).pc = "done"
          /\ Len(CallState(c).sent) = 2
          /\ CallState(c).sent[2].outcome = "ok"

-----------------------------------------------------------------------------
(* The webhook: POST /webhook and the processing of one inbound message.
   `hook` holds the request, the HTTP response given to it, the position of
   processWhatsAppMessage, the state of the promise it returned, and the
   sendSplitMessage calls that have ended; the call in progress, if any, is
   in the variables of `call`.                                              *)

\* "You said: "
YOU_SAID ==
    << 89, 111, 117, 32, 115, 97, 105, 100, 58, 32 >>

\* "Transcription: "
TRANSCRIPTION ==
    << 84, 114, 97, 110, 115, 99, 114, 105, 112, 116, 105, 111, 110, 58,
       32 >>

\* "Sorry, I couldn't retrieve your audio file details at the moment."
NO_MEDIA_URL_REPLY ==
    << 83, 111, 114, 114, 121, 44, 32, 73, 32, 99, 111, 117, 108, 100,
       110, 39, 116, 32, 114, 101, 116, 114, 105, 101, 118, 101, 32,
       121, 111, 117, 114, 32, 97, 117, 100, 105, 111, 32, 102, 105,
       108, 101, 32, 100, 101, 116, 97, 105, 108, 115, 32, 97, 116, 32,
       116, 104, 101, 32, 109, 111, 109, 101, 110, 116, 46 >>

\* "Sorry, I received an unexpected response from the transcription service."
UNEXPECTED_RESPONSE_REPLY ==
    << 83, 111, 114, 114, 121, 44, 32, 73, 32, 114, 101, 99, 101, 105,
       118, 101, 100, 32, 97, 110, 32, 117, 110, 101, 120, 112, 101, 99,
       116, 101, 100, 32, 114, 101, 115, 112, 111, 110, 115, 101, 32,
       102, 114, 111, 109, 32, 116, 104, 101, 32, 116, 114, 97, 110,
       115, 99, 114, 105, 112, 116, 105, 111, 110, 32, 115, 101, 114,
       118, 105, 99, 101, 46 >>

\* "The audio seems to be silent or could not be transcribed into meaningful
\* text."
SILENT_AUDIO_REPLY ==
    << 84, 104, 101, 32, 97, 117, 100, 105, 111, 32, 115, 101, 101, 109,
       115, 32, 116, 111, 32, 98, 101, 32, 115, 105, 108, 101, 110, 116,
       32, 111, 114, 32, 99, 111, 117, 108, 100, 32, 110, 111, 116, 32,
       98, 101, 32, 116, 114, 97, 110, 115, 99, 114, 105, 98, 101, 100,
       32, 105, 110, 116, 111, 32, 109, 101, 97, 110, 105, 110, 103,
       102, 117, 108, 32, 116, 101, 120, 116, 46 >>

\* "Sorry, I encountered an internal error while processing your message.
\* Please try again later."
INTERNAL_ERROR_REPLY ==
    << 83, 111, 114, 114, 121, 44, 32, 73, 32, 101, 110, 99, 111, 117,
       110, 116, 101, 114, 101, 100, 32, 97, 110, 32, 105, 110, 116,
       101, 114, 110, 97, 108, 32, 101, 114, 114, 111, 114, 32, 119,
       104, 105, 108, 101, 32, 112, 114, 111, 99, 101, 115, 115, 105,
       110, 103, 32, 121, 111, 117, 114, 32, 109, 101, 115, 115, 97,
       103, 101, 46, 32, 80, 108, 101, 97, 115, 101, 32, 116, 114, 121,
       32, 97, 103, 97, 105, 110, 32, 108, 97, 116, 101, 114, 46 >>

\* "Sorry, I couldn't process your audio right now."
AUDIO_ERROR_REPLY_old ==
    << 83, 111, 114, 114, 121, 44, 32, 73, 32, 99, 111, 117, 108, 100,
       110, 39, 116, 32, 112, 114, 111, 99, 101, 115, 115, 32, 121, 111,
       117, 114, 32, 97, 117, 100, 105, 111, 32, 114, 105, 103, 104,
       116, 32, 110, 111, 119, 46 >>

\* the bodies of inbound text messages: a short one, and one that makes the
\* reply longer than MAX_LENGTH
Bodies ==
    { <<104, 105>>,
      MakeText(MAX_LENGTH - 6, <<32, 97, 40, 49, 47, 50, 41, 32, 98>>) }

\* what the transcription service returns as text: nothing, white space, words
Transcripts == { << >>, <<32, 10>>, <<104, 101, 108, 108, 111>> }

\* the inbound requests: a body that passes the validation of lines 170-174
\* or not; the message's type; whether the message carries the member of its
\* type (message.text, message.audio); the text of a text message
Requests ==
    [valid : BOOLEAN, type : {"text", "audio", "image"},
     hasContent : BOOLEAN, body : Bodies]

\* no sendSplitMessage call is in progress
NoCall ==
    /\ longText = << >>
    /\ pc = "idle"
    /\ chunks = << >>
    /\ i = 0
    /\ sent = << >>
    /\ result = "pending"

InitHook ==
    /\ running = 0
    /\ parked = << >>
    /\ NoCall
    /\ events = << >>
    /\ \E request \in Requests :
          hook = [phase |-> "received", request |-> request,
                  response |-> "none", outcome |-> "pending",
                  inTry |-> TRUE, ended |-> << >>]

\* the sendSplitMessage calls of this message that have ended, with the call
\* in progress or just ended added
Ended(h) ==
    IF pc = "idle" THEN h.ended
    ELSE Append(h.ended,
                [text |-> longText, sends |-> Len(sent), result |-> result])

\* sendSplitMessage(from, text) is called from position `phase`, inside the
\* try block or in its catch: the call in progress is replaced by a new one
Deliver(h, text, phase, inTry) ==
    /\ longText' = text
    /\ pc' = "start"
    /\ chunks' = << >>
    /\ i' = 0
    /\ sent' = << >>
    /\ result' = "pending"
    /\ hook' = [h EXCEPT !.phase = phase, !.inTry = inTry, !.ended = Ended(h)]

\* processWhatsAppMessage returns: its promise fulfils
Return(h) ==
    /\ hook' = [h EXCEPT !.phase = "done", !.outcome = "fulfilled",
                         !.ended = Ended(h)]
    /\ longText' = << >>
    /\ pc' = "idle"
    /\ chunks' = << >>
    /\ i' = 0
    /\ sent' = << >>
    /\ result' = "pending"

\* a catch block that only logs the error
Catch_silent(h) == Return(h)

\* line 151: control enters the catch block, which sends the general notice
Catch(h) == Deliver(h, INTERNAL_ERROR_REPLY, "deliverNotice", FALSE)

\* lines 83-95 and 145-150: processWhatsAppMessage runs to its first await
Process(h) ==
    LET message == h.request
    IN  IF ~message.hasContent /\ message.type \in {"text", "audio"}
        THEN Catch(h)
        ELSE IF message.type = "audio"
        THEN /\ hook' = [h EXCEPT !.phase = "getMediaUrl"]
             /\ UNCHANGED <<longText, pc, chunks, i, sent, result>>
        ELSE IF message.type = "text"
        THEN Deliver(h, YOU_SAID \o message.body, "deliver", TRUE)
        ELSE Return(h)

\* where res.sendStatus(200) stands in the handler: before the processing
\* starts (line 178), or after it as in the second definition (line 424)
AckFirst_afterProcessing == FALSE

AckFirst == TRUE

\* lines 166-195: POST /webhook
HandlePost ==
    /\ hook.phase = "received"
    /\ UNCHANGED <<running, parked>>
    /\ IF hook.request.valid
       THEN /\ events' = IF AckFirst THEN Append(events, "ack") ELSE events
            /\ Process(IF AckFirst THEN [hook EXCEPT !.response = "200"]
                                   ELSE hook)
       ELSE /\ hook' = [hook EXCEPT !.phase = "closed", !.response = "404"]
            /\ UNCHANGED call

\* lines 93-103: the request for the media URL has settled
MediaUrlSettles(outcome) ==
    /\ hook.phase = "getMediaUrl"
    /\ UNCHANGED <<running, parked, events>>
    /\ CASE outcome = "rejected" -> Catch(hook)
         [] outcome = "noUrl" ->
                Deliver(hook, NO_MEDIA_URL_REPLY, "deliver", TRUE)
         [] outcome = "url" ->
                /\ hook' = [hook EXCEPT !.phase = "download"]
                /\ UNCHANGED <<longText, pc, chunks, i, sent, result>>

\* lines 106-111: the download of the audio has settled
DownloadSettles(ok) ==
    /\ hook.phase = "download"
    /\ UNCHANGED <<running, parked, events>>
    /\ IF ok
       THEN /\ hook' = [hook EXCEPT !.phase = "transcribe"]
            /\ UNCHANGED <<longText, pc, chunks, i, sent, result>>
       ELSE Catch(hook)

\* lines 122-142: generateContent has settled: rejected, or fulfilled with a
\* result that has no response.text function, or one whose text() throws, or
\* one whose text() returns `text`
TranscribeSettles(outcome, text) ==
    /\ hook.phase = "transcribe"
    /\ UNCHANGED <<running, parked, events>>
    /\ CASE outcome \in {"rejected", "textThrows"} -> Catch(hook)
         [] outcome = "malformed" ->
                Deliver(hook, UNEXPECTED_RESPONSE_REPLY, "deliver", TRUE)
         [] outcome = "text" ->
                IF text = << >> \/ Trim(text) = << >>
                THEN Deliver(hook, SILENT_AUDIO_REPLY, "deliver", TRUE)
                ELSE Deliver(hook, TRANSCRIPTION \o text, "deliver", TRUE)

\* the awaited sendSplitMessage call has ended: processWhatsAppMessage
\* returns, or a rejection inside the try block enters the catch block, or a
\* rejection of the notice is logged (lines 157-159)
DeliverReturns ==
    /\ hook.phase \in {"deliver", "deliverNotice"}
    /\ pc = "done"
    /\ UNCHANGED <<running, parked, events>>
    /\ IF result = "rejected" /\ hook.inTry
       THEN Catch(hook)
       ELSE Return(hook)

NextHook ==
    \/ HandlePost
    \/ \E outcome \in {"rejected", "noUrl", "url"} : MediaUrlSettles(outcome)
    \/ \E ok \in BOOLEAN : DownloadSettles(ok)
    \/ \E outcome \in {"rejected", "malformed", "textThrows", "text"} :
          \E text \in Transcripts : TranscribeSettles(outcome, text)
    \/ DeliverReturns
    \/ Enter
    \/ \E postOk \in BOOLEAN : SingleSendSettles(postOk)
    \/ \E postOk \in BOOLEAN : ChunkSendSettles(postOk)
    \/ DelayElapses
    \/ \E postOk \in BOOLEAN : NoticeSettles(postOk)

SpecHook == InitHook /\ [][NextHook]_vars

-----------------------------------------------------------------------------
(* The second definition of POST /webhook (server.js:367-428): the handler
   itself is the async function that processes the message, and it answers
   when the processing has ended.                                           *)

\* line 424: the handler answers 200 and ends
OldAnswer(h) ==
    /\ hook' = [h EXCEPT !.phase = "closed", !.response = "200",
                         !.outcome = "fulfilled", !.ended = Ended(h)]
    /\ events' = Append(events, "ack")
    /\ longText' = << >>
    /\ pc' = "idle"
    /\ chunks' = << >>
    /\ i' = 0
    /\ sent' = << >>
    /\ result' = "pending"

\* an exception outside the try block: the promise of the handler rejects
\* and the request is never answered
OldThrow(h) ==
    /\ hook' = [h EXCEPT !.phase = "closed", !.outcome = "rejected",
                         !.ended = Ended(h)]
    /\ UNCHANGED events
    /\ longText' = << >>
    /\ pc' = "idle"
    /\ chunks' = << >>
    /\ i' = 0
    /\ sent' = << >>
    /\ result' = "pending"

\* lines 416-419: the catch block of the audio branch
OldCatch(h) ==
    /\ Deliver(h, AUDIO_ERROR_REPLY_old, "deliverNotice", FALSE)
    /\ UNCHANGED events

\* lines 367-383 and 420-427: the handler runs to its first await
OldHandlePost ==
    /\ hook.phase = "received"
    /\ UNCHANGED <<running, parked>>
    /\ LET message == hook.request
       IN  IF ~message.valid
           THEN /\ hook' = [hook EXCEPT !.phase = "closed", !.response = "404"]
                /\ UNCHANGED call
           ELSE IF ~message.hasContent /\ message.type \in {"text", "audio"}
           THEN OldThrow(hook)
           ELSE IF message.type = "audio"
           THEN /\ hook' = [hook EXCEPT !.phase = "getMediaUrl"]
                /\ UNCHANGED call
           ELSE IF message.type = "text"
           THEN /\ Deliver(hook, YOU_SAID \o message.body, "deliver", FALSE)
                /\ UNCHANGED events
           ELSE OldAnswer(hook)

\* lines 379-389: the request for the media URL has settled; without a URL
\* in the answer the download is requested from `undefined`
OldMediaUrlSettles(outcome) ==
    /\ hook.phase = "getMediaUrl"
    /\ UNCHANGED <<running, parked>>
    /\ IF outcome = "rejected"
       THEN OldCatch(hook)
       ELSE /\ hook' = [hook EXCEPT !.phase = IF outcome = "url"
                                              THEN "download"
                                              ELSE "downloadUndefined"]
            /\ UNCHANGED call

\* lines 386-391: the download has settled
OldDownloadSettles(ok) ==
    /\ hook.phase \in {"download", "downloadUndefined"}
    /\ ok => hook.phase = "download"
    /\ UNCHANGED <<running, parked>>
    /\ IF ok
       THEN /\ hook' = [hook EXCEPT !.phase = "transcribe"]
            /\ UNCHANGED call
       ELSE OldCatch(hook)

\* lines 402-411: generateContent has settled; result.response.text() is
\* called unchecked and its text is sent as it is
OldTranscribeSettles(outcome, text) ==
    /\ hook.phase = "transcribe"
    /\ UNCHANGED <<running, parked>>
    /\ IF outcome \in {"rejected", "malformed", "textThrows"}
       THEN OldCatch(hook)
       ELSE /\ Deliver(hook, TRANSCRIPTION \o text, "deliver", TRUE)
            /\ UNCHANGED events

\* the awaited sendSplitMessage call has ended
OldDeliverReturns ==
    /\ hook.phase \in {"deliver", "deliverNotice"}
    /\ pc = "done"
    /\ UNCHANGED <<running, parked>>
    /\ IF result = "rejected"
       THEN IF hook.inTry THEN OldCatch(hook) ELSE OldThrow(hook)
       ELSE OldAnswer(hook)

NextHookOld ==
    \/ OldHandlePost
    \/ \E outcome \in {"rejected", "noUrl", "url"} : OldMediaUrlSettles(outcome)
    \/ \E ok \in BOOLEAN : OldDownloadSettles(ok)
    \/ \E outcome \in {"rejected", "malformed", "textThrows", "text"} :
          \E text \in Transcripts : OldTranscribeSettles(outcome, text)
    \/ OldDeliverReturns
    \/ OldEnter
    \/ \E postOk \in BOOLEAN : OldSingleSendSettles(postOk)
    \/ \E postOk \in BOOLEAN : OldChunkSendSettles(postOk)
    \/ OldDelayElapses

SpecHookOld == InitHook /\ [][NextHookOld]_vars

(* C20 *)

\* the sends issued for the message so far, over all sendSplitMessage calls
OutboundSends ==
    LET RECURSIVE Sum(_)
        Sum(s) == IF s = << >> THEN 0 ELSE Head(s).sends + Sum(Tail(s))
    IN  Sum(Ended(hook))

\* C20: for a request that passes the validation, the answer 200 has been
\* given when the first outbound send is issued, and it has been given
\* whenever the processing has ended, however it ended.
C20_AckBeforeProcess ==
    hook.request.valid =>
        /\ OutboundSends > 0 => hook.response = "200"
        /\ hook.phase \in {"done", "closed"} => hook.response = "200"
        /\ \A k \in 1..Len(events) :
              events[k] = "send" => \E j \in 1..(k - 1) : events[j] = "ack"

\* the processing of an audio message has ended after the transcription
\* failed and the notice of the failure could not be sent either
C20_Witness ==
    /\ hook.request.valid
    /\ hook.phase = "done"
    /\ hook.response = "200"
    /\ Len(hook.ended) = 1
    /\ hook.ended[1].text = INTERNAL_ERROR_REPLY
    /\ hook.ended[1].result = "rejected"
    /\ hook.request.type = "audio"
    /\ hook.request.hasContent

-----------------------------------------------------------------------------
(* C21 *)

\* the sendSplitMessage call is one for the general error notice
IsErrorNotice(d) == d.text = INTERNAL_ERROR_REPLY

\* how many of the calls are for the general error notice
RECURSIVE ErrorNotices(_)
ErrorNotices(ds) ==
    IF ds = << >> THEN 0
    ELSE (IF IsErrorNotice(Head(ds)) THEN 1 ELSE 0) + ErrorNotices(Tail(ds))

\* C21: for a request that passes the validation the promise of
\* processWhatsAppMessage never rejects; once an error has been raised in the
\* try block, and only then, there is exactly one sendSplitMessage call for
\* the general error notice, it is the last call, and a rejected call for
\* anything else is followed by it; a rejection of the notice ends the
\* processing with the promise fulfilled; and there are at most two
\* sendSplitMessage calls for the message.
C21_ErrorContainment ==
    hook.request.valid =>
        LET ds == Ended(hook)
            over == hook.phase = "done"
        IN  /\ hook.outcome # "rejected"
            /\ Len(ds) <= 2
            /\ ErrorNotices(ds) = IF hook.inTry THEN 0 ELSE 1
            /\ \A k \in 1..Len(ds) :
                  /\ IsErrorNotice(ds[k]) => k = Len(ds)
                  /\ (ds[k].result = "rejected" /\ ~IsErrorNotice(ds[k])
                        /\ (over \/ k < Len(ds)))
                     => /\ k + 1 = Len(ds)
                        /\ IsErrorNotice(ds[k + 1])
            /\ over => /\ hook.outcome = "fulfilled"
                       /\ \A k \in 1..Len(ds) : ds[k].result # "pending"

\* the reply to a text message could not be sent, the call for the general
\* error notice failed as well, and the processing has ended
C21_Witness ==
    /\ hook.request.valid
    /\ hook.request.type = "text"
    /\ hook.phase = "done"
    /\ hook.outcome = "fulfilled"
    /\ Len(hook.ended) = 2
    /\ hook.ended[1].text = YOU_SAID \o hook.request.body
    /\ hook.ended[1].result = "rejected"
    /\ IsErrorNotice(hook.ended[2])
    /\ hook.ended[2].sends = 1
    /\ hook.ended[2].result = "rejected"

-----------------------------------------------------------------------------
(* The verification handshake: GET /webhook (server.js:60-80).  A query
   parameter is undefined when the query does not name it, a string (empty
   for `name=`), or an array when the query names it more than once.         *)

Undefined == [kind |-> "undefined", value |-> << >>]

String(s) == [kind |-> "string", value |-> s]

Array(s) == [kind |-> "array", value |-> s]

\* "subscribe"
SUBSCRIBE == <<115, 117, 98, 115, 99, 114, 105, 98, 101>>

\* a value that `if (v)` takes for true: every array, every string but ""
Truthy_defined(v) == v.kind # "undefined"

Truthy(v) == v.kind = "array" \/ (v.kind = "string" /\ v.value # << >>)

\* v === s for a string s
StrictEquals(v, s) == v.kind = "string" /\ v.value = s

\* process.env.WHATSAPP_VERIFY_TOKEN: the process exits at start when it is
\* not set or empty (line 29): "secret", "s"
VerifyTokens == { <<115, 101, 99, 114, 101, 116>>, <<115>> }

\* hub.mode: not named, empty, subscribe, unsubscribe, subscribe twice
Modes ==
    { Undefined, String(<< >>), String(SUBSCRIBE),
      String(<<117, 110, 115, 117, 98, 115, 99, 114, 105, 98, 101>>),
      Array(SUBSCRIBE) }

\* hub.verify_token: not named, empty, either token, another one, an array
Tokens ==
    { Undefined, String(<< >>), String(<<120>>) }
        \cup { String(t) : t \in VerifyTokens }
        \cup { Array(t) : t \in VerifyTokens }

\* hub.challenge: not named, empty, "1158201444"
Challenges ==
    { Undefined, String(<< >>), String(<<49, 49, 53, 56, 50, 48, 49, 52, 52, 52>>) }

\* res.send(v) of a string or of undefined: the body of the answer
Send(v) == v.value

InitVerify ==
    /\ running = 0
    /\ parked = << >>
    /\ NoCall
    /\ events = << >>
    /\ \E mode \in Modes, token \in Tokens, challenge \in Challenges,
          VERIFY_TOKEN \in VerifyTokens :
          hook = [phase |-> "received", VERIFY_TOKEN |-> VERIFY_TOKEN,
                  mode |-> mode, token |-> token, challenge |-> challenge,
                  response |-> "none", body |-> << >>]

\* lines 60-80: GET /webhook
VerifyWebhook ==
    /\ hook.phase = "received"
    /\ UNCHANGED <<running, parked>>
    /\ UNCHANGED call
    /\ IF Truthy(hook.mode) /\ Truthy(hook.token)
       THEN IF /\ StrictEquals(hook.mode, SUBSCRIBE)
               /\ StrictEquals(hook.token, hook.VERIFY_TOKEN)
            THEN hook' = [hook EXCEPT !.phase = "closed", !.response = "200",
                                      !.body = Send(hook.challenge)]
            ELSE hook' = [hook EXCEPT !.phase = "closed", !.response = "403"]
       ELSE hook' = [hook EXCEPT !.phase = "closed", !.response = "400"]

NextVerify == VerifyWebhook

SpecVerify == InitVerify /\ [][NextVerify]_vars

(* C22 *)

\* mode is 'subscribe' and the supplied token is the configured one
Verified ==
    /\ hook.mode = String(SUBSCRIBE)
    /\ hook.token = String(hook.VERIFY_TOKEN)

\* the query names the parameter
Present(v) == v # Undefined

\* the query names the parameter with a value that is not empty
Given(v) == v # Undefined /\ v # String(<< >>)

\* what the answer is in all cases: 200 with the challenge as body exactly
\* when verified, and no body otherwise
C22_Answer200 ==
    hook.phase = "closed" =>
        /\ hook.response = "200" <=> Verified
        /\ hook.response = "200" => hook.body = hook.challenge.value
        /\ hook.response # "200" => hook.body = << >>
        /\ hook.response \in {"200", "400", "403"}

\* C22 as stated: the answer is 200 with the challenge echoed if and only if
\* mode is 'subscribe' and the token is the configured one; it is 403 when
\* mode and token are both present and that does not hold; it is 400 when
\* mode or token is missing; the challenge is not echoed on a mismatch.
C22_HandshakePresent ==
    /\ C22_Answer200
    /\ hook.phase = "closed" =>
          /\ (Present(hook.mode) /\ Present(hook.token) /\ ~Verified)
                => hook.response = "403"
          /\ (~Present(hook.mode) \/ ~Present(hook.token))
                => hook.response = "400"

\* C22: the same, with a parameter that is named with an empty value
\* (`hub.mode=`) counted as missing: the answer is 403 when mode and token
\* are both given with a value that is not empty and do not verify; it is
\* 400 when mode or token is missing or empty.
C22_Handshake ==
    /\ C22_Answer200
    /\ hook.phase = "closed" =>
          /\ (Given(hook.mode) /\ Given(hook.token) /\ ~Verified)
                => hook.response = "403"
          /\ (~Given(hook.mode) \/ ~Given(hook.token))
                => hook.response = "400"

\* a request to subscribe with an empty token has been answered 400
C22_Witness ==
    /\ hook.phase = "closed"
    /\ hook.mode = String(SUBSCRIBE)
    /\ hook.token = String(<< >>)
    /\ hook.challenge # Undefined
    /\ hook.response = "400"
    /\ hook.body = << >>

====
